---- MODULE Spec2Model ----
(***************************************************************************)
(* bad_pixels.py: find_islands and its nested dfs.                         *)
(*                                                                         *)
(* The image is a list of rows (a sequence of sequences of integers).      *)
(* Cells are pairs <<x, y>> with x the row and y the column, 0-based as in *)
(* the source; image[x][y] of the source is Val(image, <<x, y>>).          *)
(* One step of the model is one evaluation of the raster scan's condition  *)
(* (line 74), or one iteration of the while loop of dfs (lines 48-67).     *)
(***************************************************************************)
EXTENDS Integers, Sequences, FiniteSets, TLC

VARIABLES image, pc, i, j, visited, islands, island, perimeter, stack, pixel_value

vars == <<image, pc, i, j, visited, islands, island, perimeter, stack, pixel_value>>

(* ----------------------------- bounds --------------------------------- *)
MaxH == 3
MaxW == 3
MaxCells == 9
MaxRaggedW == 2
MaxSmallCells == 6

Values == {-1, 0, 1}

(* ----------------------------- helpers -------------------------------- *)
Range(s) == {s[k] : k \in 1..Len(s)}

Height(img) == Len(img)

\* len(image[0]); the source evaluates it only when the image has a row
Width(img) == IF Len(img) = 0 THEN 0 ELSE Len(img[1])

Rectangular(img) == \A r \in 1..Len(img) : Len(img[r]) = Width(img)

\* image[x][y] raises IndexError when row x has no column y
HasCell(img, c) ==
    /\ c[1] >= 0 /\ c[1] < Len(img)
    /\ c[2] >= 0 /\ c[2] < Len(img[c[1] + 1])

Val(img, c) == img[c[1] + 1][c[2] + 1]

directions == << <<-1, 0>>, <<1, 0>>, <<0, -1>>, <<0, 1>> >>

\* line 57
InBounds(img, n) ==
    /\ 0 <= n[1] /\ n[1] < Height(img)
    /\ 0 <= n[2] /\ n[2] < Width(img)

\* line 74: image[i][j] < 1
IsForegroundBelowTwo(v) == v < 2

IsForeground(v) == v < 1

\* line 50: (cx, cy) not in visited
PopsUnvisitedAlways(c, vis) == TRUE

PopsUnvisited(c, vis) == c \notin vis

\* line 58: (nx, ny) not in visited
NeighbourUnvisitedAlways(n, vis) == TRUE

NeighbourUnvisited(n, vis) == n \notin vis

\* line 52: island.append((cx, cy))
PrependPixel(isl, c) == <<c>> \o isl

AppendPixel(isl, c) == Append(isl, c)

\* lines 66-67: if is_perimeter: perimeter.append((cx, cy))
AppendPerimeterNeighbour(per, c, is_perimeter) ==
    IF is_perimeter THEN Append(per, <<c[1], c[2] + 1>>) ELSE per

AppendPerimeter(per, c, is_perimeter) ==
    IF is_perimeter THEN Append(per, c) ELSE per

\* line 64: the else branch of the bounds test
OutOfBounds(acc) == [acc EXCEPT !.is_perimeter = TRUE]

\* lines 59-62, for an in-bounds unvisited neighbour n of value v
ExamineNeighbourFlagAlways(acc, n, v, pv) ==
    IF v = pv
    THEN [acc EXCEPT !.is_perimeter = TRUE, !.stack = Append(@, n)]
    ELSE [acc EXCEPT !.is_perimeter = TRUE]

ExamineNeighbourAnyForeground(acc, n, v, pv) ==
    IF v >= 1
    THEN [acc EXCEPT !.is_perimeter = TRUE]
    ELSE [acc EXCEPT !.stack = Append(@, n)]

ExamineNeighbour(acc, n, v, pv) ==
    IF v # pv \/ v >= 1
    THEN [acc EXCEPT !.is_perimeter = TRUE]
    ELSE IF v = pv
         THEN [acc EXCEPT !.stack = Append(@, n)]
         ELSE acc

\* lines 55-64: the loop over the directions, in the order dirs, from the
\* k-th one on; failed records the IndexError of image[nx][ny]
RECURSIVE Examine(_, _, _, _, _, _, _)
Examine(img, vis, c, pv, dirs, k, acc) ==
    IF k > Len(dirs) THEN acc
    ELSE LET n == <<c[1] + dirs[k][1], c[2] + dirs[k][2]>> IN
         IF InBounds(img, n)
         THEN IF NeighbourUnvisited(n, vis)
              THEN IF ~HasCell(img, n)
                   THEN [acc EXCEPT !.failed = TRUE]
                   ELSE Examine(img, vis, c, pv, dirs, k + 1,
                                ExamineNeighbour(acc, n, Val(img, n), pv))
              ELSE Examine(img, vis, c, pv, dirs, k + 1, acc)
         ELSE Examine(img, vis, c, pv, dirs, k + 1, OutOfBounds(acc))

\* the work-list without its k-th element (stack.pop() takes the last)
RemoveAtKeeps(stk, k) == stk

RemoveAt(stk, k) == SubSeq(stk, 1, k - 1) \o SubSeq(stk, k + 1, Len(stk))

\* lines 49-67: one iteration of the while loop, popping the k-th element of
\* the work-list and examining the directions in the order dirs
PopStep(img, vis, isl, per, stk, pv, k, dirs) ==
    LET c == stk[k]
        rest == RemoveAt(stk, k)
    IN  IF PopsUnvisited(c, vis)
        THEN LET vis2 == vis \cup {c}
                 r == Examine(img, vis2, c, pv, dirs, 1,
                              [stack |-> rest, is_perimeter |-> FALSE, failed |-> FALSE])
             IN  [visited |-> vis2,
                  island |-> AppendPixel(isl, c),
                  perimeter |-> IF r.failed THEN per
                                ELSE AppendPerimeter(per, c, r.is_perimeter),
                  stack |-> r.stack,
                  failed |-> r.failed]
        ELSE [visited |-> vis, island |-> isl, perimeter |-> per,
              stack |-> rest, failed |-> FALSE]

(* -------------------------- initial states ---------------------------- *)
Rows(w) == [1..w -> Values]

RectGrids ==
    UNION {[1..h -> Rows(w)] : <<h, w>> \in
             {d \in (0..MaxH) \X (0..MaxW) : d[1] * d[2] <= MaxCells}}

RaggedGrids ==
    {g \in [1..2 -> UNION {Rows(w) : w \in 0..MaxRaggedW}] : ~Rectangular(g)}

\* the 3x3 grids of one value around a centre of any value
FrameValues == {0, 1}

FramedGrids ==
    {[x \in 1..3 |-> [y \in 1..3 |-> IF x = 2 /\ y = 2 THEN bc[2] ELSE bc[1]]] :
        bc \in FrameValues \X Values}

SmallGrids ==
    {g \in RectGrids : Height(g) * Width(g) <= MaxSmallCells} \cup FramedGrids \cup RaggedGrids

InitSmall ==
    /\ image \in SmallGrids
    /\ pc = "scan"
    /\ i = 0
    /\ j = 0
    /\ visited = {}
    /\ islands = <<>>
    /\ island = <<>>
    /\ perimeter = <<>>
    /\ stack = <<>>
    /\ pixel_value = 0

\* lines 69-70, before the first evaluation of line 74
Init ==
    /\ image \in RectGrids \cup RaggedGrids
    /\ pc = "scan"
    /\ i = 0
    /\ j = 0
    /\ visited = {}
    /\ islands = <<>>
    /\ island = <<>>
    /\ perimeter = <<>>
    /\ stack = <<>>
    /\ pixel_value = 0

(* ------------------------------ actions ------------------------------- *)
dfsVars == <<visited, island, perimeter, stack, pixel_value>>

\* line 73: the inner range is exhausted, the outer loop takes the next row
RowEnd ==
    /\ pc = "scan"
    /\ i < Height(image)
    /\ j >= Width(image)
    /\ i' = i + 1
    /\ j' = 0
    /\ UNCHANGED <<image, pc, islands, dfsVars>>

\* line 74 is false: the cell is visited or not foreground
ScanSkip ==
    /\ pc = "scan"
    /\ i < Height(image)
    /\ j < Width(image)
    /\ \/ <<i, j>> \in visited
       \/ /\ HasCell(image, <<i, j>>)
          /\ ~IsForeground(Val(image, <<i, j>>))
    /\ j' = j + 1
    /\ UNCHANGED <<image, pc, i, islands, dfsVars>>

\* line 74: image[i][j] raises IndexError on a row shorter than row 0
ScanFail ==
    /\ pc = "scan"
    /\ i < Height(image)
    /\ j < Width(image)
    /\ <<i, j>> \notin visited
    /\ ~HasCell(image, <<i, j>>)
    /\ pc' = "IndexError"
    /\ UNCHANGED <<image, i, j, islands, dfsVars>>

\* lines 74-77 and 44-46: a seed is found and dfs is entered
StartDfs ==
    /\ pc = "scan"
    /\ i < Height(image)
    /\ j < Width(image)
    /\ <<i, j>> \notin visited
    /\ HasCell(image, <<i, j>>)
    /\ IsForeground(Val(image, <<i, j>>))
    /\ island' = <<>>
    /\ perimeter' = <<>>
    /\ stack' = << <<i, j>> >>
    /\ pixel_value' = Val(image, <<i, j>>)
    /\ pc' = "dfs"
    /\ UNCHANGED <<image, i, j, visited, islands>>

\* the result of one iteration of the while loop of dfs on the current state
Popped(k, dirs) ==
    PopStep(image, visited, island, perimeter, stack, pixel_value, k, dirs)

\* lines 48-67, the popped cell is not visited: it joins the island, and the
\* IndexError of image[nx][ny] (line 59, a row shorter than row 0) ends the call
PopVisit(k, r) ==
    /\ stack[k] \notin visited
    /\ visited' = r.visited
    /\ island' = r.island
    /\ perimeter' = r.perimeter
    /\ stack' = r.stack
    /\ pc' = IF r.failed THEN "IndexError" ELSE pc
    /\ UNCHANGED <<image, i, j, islands, pixel_value>>

\* lines 48-50, the popped cell is already visited
PopSkip(k, r) ==
    /\ stack[k] \in visited
    /\ visited' = r.visited
    /\ island' = r.island
    /\ perimeter' = r.perimeter
    /\ stack' = r.stack
    /\ UNCHANGED <<image, pc, i, j, islands, pixel_value>>

\* stack.pop() and the directions in the order of line 46
PopVisitLast ==
    /\ pc = "dfs"
    /\ stack # <<>>
    /\ PopVisit(Len(stack), Popped(Len(stack), directions))

PopSkipLast ==
    /\ pc = "dfs"
    /\ stack # <<>>
    /\ PopSkip(Len(stack), Popped(Len(stack), directions))

\* lines 48 and 78-79: the work-list is empty, dfs returns and the island is
\* appended; the scan goes on with the next column
FinishDfs ==
    /\ pc = "dfs"
    /\ stack = <<>>
    /\ islands' = IF island # <<>>
                  THEN Append(islands, [pixels |-> island, perimeter |-> perimeter])
                  ELSE islands
    /\ pc' = "scan"
    /\ j' = j + 1
    /\ UNCHANGED <<image, i, dfsVars>>

\* line 81
Return ==
    /\ pc = "scan"
    /\ i >= Height(image)
    /\ pc' = "done"
    /\ UNCHANGED <<image, i, j, islands, dfsVars>>

Next ==
    \/ RowEnd
    \/ ScanSkip
    \/ ScanFail
    \/ StartDfs
    \/ PopVisitLast
    \/ PopSkipLast
    \/ FinishDfs
    \/ Return

Spec == Init /\ [][Next]_vars

\* find_islands always runs on: no step of it waits for anything
FairSpec == InitSmall /\ [][Next]_vars /\ WF_vars(Next)

(* ------------- the traversal under any work-list discipline ----------- *)
\* every order of examining the four directions
DirOrders ==
    {<<directions[p[1]], directions[p[2]], directions[p[3]], directions[p[4]]>> :
        p \in {q \in [1..4 -> 1..4] : \A a, b \in 1..4 : a # b => q[a] # q[b]}}

\* what one iteration can yield when any element of the work-list is taken
\* and the directions are examined in any order
PoppedAny(k) == {Popped(k, dirs) : dirs \in DirOrders}

PopVisitAny ==
    /\ pc = "dfs"
    /\ \E k \in {n \in 1..Len(stack) : stack[n] \notin visited} :
          \E r \in PoppedAny(k) : PopVisit(k, r)

PopSkipAny ==
    /\ pc = "dfs"
    /\ \E k \in {n \in 1..Len(stack) : stack[n] \in visited} :
          \E r \in PoppedAny(k) : PopSkip(k, r)

NextAny ==
    \/ RowEnd
    \/ ScanSkip
    \/ ScanFail
    \/ StartDfs
    \/ PopVisitAny
    \/ PopSkipAny
    \/ FinishDfs
    \/ Return

SpecAny == InitSmall /\ [][NextAny]_vars

(* --------------- find_islands as a function of the image -------------- *)
\* lines 44-67: dfs run to the end of its while loop
RECURSIVE dfs(_, _, _, _, _, _)
dfs(img, vis, isl, per, stk, pv) ==
    IF stk = <<>>
    THEN [visited |-> vis, island |-> isl, perimeter |-> per, failed |-> FALSE]
    ELSE LET r == PopStep(img, vis, isl, per, stk, pv, Len(stk), directions)
         IN  IF r.failed
             THEN [visited |-> r.visited, island |-> r.island,
                   perimeter |-> r.perimeter, failed |-> TRUE]
             ELSE dfs(img, r.visited, r.island, r.perimeter, r.stack, pv)

\* lines 72-81: the raster scan from the cell <<x, y>> on
RECURSIVE scan(_, _, _, _, _)
scan(img, x, y, vis, out) ==
    IF x >= Height(img) THEN [failed |-> FALSE, islands |-> out]
    ELSE IF y >= Width(img) THEN scan(img, x + 1, 0, vis, out)
    ELSE IF <<x, y>> \in vis THEN scan(img, x, y + 1, vis, out)
    ELSE IF ~HasCell(img, <<x, y>>) THEN [failed |-> TRUE, islands |-> out]
    ELSE IF IsForeground(Val(img, <<x, y>>))
         THEN LET d == dfs(img, vis, <<>>, <<>>, << <<x, y>> >>, Val(img, <<x, y>>))
              IN  IF d.failed THEN [failed |-> TRUE, islands |-> out]
                  ELSE scan(img, x, y + 1, d.visited,
                            IF d.island # <<>>
                            THEN Append(out, [pixels |-> d.island, perimeter |-> d.perimeter])
                            ELSE out)
         ELSE scan(img, x, y + 1, vis, out)

\* lines 69-81
find_islands(img) == scan(img, 0, 0, {}, <<>>)

(* ------------------- vocabulary of the properties --------------------- *)
Cells(img) == (0..(Height(img) - 1)) \X (0..(Width(img) - 1))

Neighbours(c) == {<<c[1] - 1, c[2]>>, <<c[1] + 1, c[2]>>, <<c[1], c[2] - 1>>, <<c[1], c[2] + 1>>}

Adjacent(a, b) == b \in Neighbours(a)

RasterLess(a, b) == a[1] < b[1] \/ (a[1] = b[1] /\ a[2] < b[2])

Pixels(k) == Range(islands[k].pixels)

Perimeter(k) == Range(islands[k].perimeter)

AllPixels == UNION {Pixels(k) : k \in 1..Len(islands)}

Count(s, e) == Cardinality({n \in 1..Len(s) : s[n] = e})

NoDuplicates(s) == \A a, b \in 1..Len(s) : a # b => s[a] # s[b]

IsPrefix(s, t) == Len(s) <= Len(t) /\ \A n \in 1..Len(s) : s[n] = t[n]

IsPermutation(s, t) ==
    /\ Len(s) = Len(t)
    /\ \A e \in Range(s) \cup Range(t) : Count(s, e) = Count(t, e)

\* the cells joined to the cells of S by paths of 4-adjacent cells that all
\* have the value v
RECURSIVE Grow(_, _, _)
Grow(img, v, S) ==
    LET T == S \cup {n \in Cells(img) : Val(img, n) = v /\ \E c \in S : Adjacent(c, n)}
    IN  IF T = S THEN S ELSE Grow(img, v, T)

Component(img, c) == Grow(img, Val(img, c), {c})

Returned == pc = "done" /\ Rectangular(image)

(* ------------------------------- C1 ----------------------------------- *)
\* C1 (as stated): on a rectangular grid the returned islands' pixel lists are
\* pairwise disjoint and their union is exactly the set of cells of value 0.
C1_PartitionOfZeroCells ==
    Returned =>
        /\ \A a, b \in 1..Len(islands) : a # b => Pixels(a) \cap Pixels(b) = {}
        /\ AllPixels = {c \in Cells(image) : Val(image, c) = 0}

\* C1 (amended): on a rectangular grid the returned islands' pixel lists are
\* pairwise disjoint and their union is exactly the set of cells of value
\* less than 1 (0 and every negative value): no cell of value >= 1 is in any
\* island and every cell of value < 1 is in exactly one island.
C1_PartitionOfCellsBelowOne ==
    Returned =>
        /\ \A a, b \in 1..Len(islands) : a # b => Pixels(a) \cap Pixels(b) = {}
        /\ AllPixels = {c \in Cells(image) : Val(image, c) < 1}
        /\ \A c \in Cells(image) :
              /\ Val(image, c) >= 1 => \A k \in 1..Len(islands) : c \notin Pixels(k)
              /\ Val(image, c) < 1 =>
                    Cardinality({k \in 1..Len(islands) : c \in Pixels(k)}) = 1

C1_Witness ==
    /\ Returned
    /\ Len(islands) >= 2
    /\ \E c \in AllPixels : Val(image, c) < 0
    /\ \E c \in AllPixels : Val(image, c) = 0
    /\ \E c \in Cells(image) : Val(image, c) >= 1

(* ------------------------------- C2 ----------------------------------- *)
\* C2: on a rectangular grid two cells of value < 1 are in the same returned
\* island iff a path of 4-adjacent cells of one same value joins them, and no
\* island has a 4-adjacent cell of its value outside it.
C2_ComponentMaximality ==
    Returned =>
        LET fg == {c \in Cells(image) : Val(image, c) < 1}
        IN  /\ \A a \in fg :
                  LET joined == Component(image, a)
                  IN  \A b \in fg :
                          (\E k \in 1..Len(islands) : a \in Pixels(k) /\ b \in Pixels(k))
                              <=> b \in joined
            /\ \A k \in 1..Len(islands) : \A c \in Pixels(k) :
                  \A n \in Neighbours(c) \cap Cells(image) :
                      Val(image, n) = Val(image, c) => n \in Pixels(k)

C2_Witness ==
    /\ Returned
    /\ \E k \in 1..Len(islands) : Cardinality(Pixels(k)) >= 3
    /\ \E a, b \in AllPixels :
          /\ Adjacent(a, b)
          /\ Val(image, a) # Val(image, b)
          /\ \A k \in 1..Len(islands) : ~(a \in Pixels(k) /\ b \in Pixels(k))

(* ------------------------------- C3 ----------------------------------- *)
\* C3 (as stated): on a rectangular grid each returned island's perimeter is
\* exactly the set of its cells with a neighbour position outside the grid or
\* holding a value other than the island's.
C3_PerimeterAnyDifferingNeighbour ==
    Returned =>
        \A k \in 1..Len(islands) :
            Perimeter(k) =
                {c \in Pixels(k) : \E n \in Neighbours(c) :
                    \/ n \notin Cells(image)
                    \/ Val(image, n) # Val(image, c)}

\* C3 (amended): on a rectangular grid each returned island's perimeter is
\* exactly the set of its cells with a neighbour position outside the grid,
\* or holding a value other than the island's in a cell that belongs to no
\* island returned earlier in the sequence.
C3_PerimeterDifferingNeighbourNotEarlier ==
    Returned =>
        \A k \in 1..Len(islands) :
            Perimeter(k) =
                {c \in Pixels(k) : \E n \in Neighbours(c) :
                    \/ n \notin Cells(image)
                    \/ /\ Val(image, n) # Val(image, c)
                       /\ \A m \in 1..(k - 1) : n \notin Pixels(m)}

C3_Witness ==
    /\ Returned
    /\ \E k \in 1..Len(islands) : \E c \in Pixels(k) \ Perimeter(k) :
          \E n \in Neighbours(c) \cap Cells(image) : Val(image, n) # Val(image, c)

(* ------------------------------- C4 ----------------------------------- *)
\* C4: on a rectangular grid the first pixel of each returned island is the
\* island's raster-least cell, these first pixels strictly increase in raster
\* order along the returned sequence, and the returned sequence is the value
\* of find_islands as a function of the grid alone.
C4_RasterOrderOfDiscovery ==
    Returned =>
        /\ \A k \in 1..Len(islands) : \A c \in Pixels(k) :
              c = islands[k].pixels[1] \/ RasterLess(islands[k].pixels[1], c)
        /\ \A k \in 1..(Len(islands) - 1) :
              RasterLess(islands[k].pixels[1], islands[k + 1].pixels[1])
        /\ islands = find_islands(image).islands

C4_Witness ==
    /\ Returned
    /\ Len(islands) >= 2
    /\ \E k \in 1..Len(islands) : \E a, b \in 1..Len(islands[k].pixels) :
          a < b /\ RasterLess(islands[k].pixels[b], islands[k].pixels[a])

(* ------------------------------- C5 ----------------------------------- *)
\* C5: in every state every island of the output has a non-empty pixel list
\* and a perimeter within its pixels, and the island under construction has
\* its perimeter within its pixels.
C5_IslandWellFormed ==
    /\ \A k \in 1..Len(islands) :
          /\ islands[k].pixels # <<>>
          /\ Perimeter(k) \subseteq Pixels(k)
    /\ Range(perimeter) \subseteq Range(island)

C5_Witness ==
    /\ pc = "dfs"
    /\ Len(islands) >= 1
    /\ perimeter # <<>>
    /\ Len(island) >= 2
    /\ stack # <<>>

(* ------------------------------- C6 ----------------------------------- *)
\* C6: when the rows are not all of equal length the call ends by reporting
\* InvalidGrid: it neither returns an island sequence nor fails otherwise.
C6_InvalidGridReported ==
    (~Rectangular(image) /\ pc \notin {"scan", "dfs"}) => pc = "InvalidGrid"

(* ------------------------------- C7 ----------------------------------- *)
NoForeground(img) == \A c \in Cells(img) : Val(img, c) >= 1

\* C7: on a rectangular grid find_islands eventually returns and never
\* fails, every traversal's work-list eventually becomes empty, and the
\* returned sequence is empty when the grid has no cell of value < 1 (a 0x0
\* grid and an Hx0 grid have no cell at all).
C7_TotalAndTerminates ==
    /\ Rectangular(image) ~> pc = "done"
    /\ (Rectangular(image) /\ pc = "dfs") ~> (pc = "dfs" /\ stack = <<>>)
    /\ [](Rectangular(image) => pc # "IndexError")
    /\ []((Returned /\ NoForeground(image)) => islands = <<>>)

C7_Witness ==
    /\ Returned
    /\ Len(islands) >= 2
    /\ \E k \in 1..Len(islands) : Len(islands[k].pixels) >= 4

(* ------------------------------- C8 ----------------------------------- *)
\* the pixel list under construction, not yet appended to the output
UnderConstruction == IF pc = "dfs" THEN island ELSE <<>>

RECURSIVE Concat(_, _)
Concat(seqs, k) == IF k > Len(seqs) THEN <<>> ELSE seqs[k].pixels \o Concat(seqs, k + 1)

\* every pixel list, finished or under construction, end to end
Appended == Concat(islands, 1) \o UnderConstruction

\* C8: on a rectangular grid the visited set only grows and always equals
\* the union of the pixel lists finished or under construction; no cell is on
\* these lists twice, and a step only appends to them.
C8_OneWayCellState ==
    /\ [](Rectangular(image) => visited = Range(Appended))
    /\ [](Rectangular(image) => NoDuplicates(Appended))
    /\ [][Rectangular(image) =>
             /\ visited \subseteq visited'
             /\ IsPrefix(Appended, Appended')
             /\ IsPrefix(islands, islands')]_vars

C8_Witness ==
    /\ pc = "dfs"
    /\ Rectangular(image)
    /\ Len(islands) >= 1
    /\ Len(island) >= 2
    /\ \E a, b \in 1..Len(stack) : a # b /\ stack[a] = stack[b]
    /\ \E a \in 1..Len(stack) : stack[a] \in visited

(* ------------------------------- C9 ----------------------------------- *)
\* C9: on a rectangular grid, whichever element of the work-list each
\* iteration takes and in whichever order it examines the directions, the
\* returned sequence has as many islands as the LIFO traversal of the code
\* returns, and island by island the pixel lists and the perimeter lists
\* are permutations of the code's.
C9_WorkListOrderIndependent ==
    Returned =>
        LET lifo == find_islands(image).islands
        IN  /\ Len(islands) = Len(lifo)
            /\ \A k \in 1..Len(islands) :
                  /\ IsPermutation(islands[k].pixels, lifo[k].pixels)
                  /\ IsPermutation(islands[k].perimeter, lifo[k].perimeter)

C9_Witness ==
    /\ Returned
    /\ \E k \in 1..Len(islands) :
          /\ islands[k].pixels # find_islands(image).islands[k].pixels
          /\ islands[k].perimeter # find_islands(image).islands[k].perimeter
          /\ Perimeter(k) # Pixels(k)

(* ------------------------------- C10 ---------------------------------- *)
NonNegative(img) == \A c \in Cells(img) : Val(img, c) >= 0

\* C10: on a rectangular grid of values >= 0 every visited cell has the
\* value of the seed of the traversal under way, and each returned island's
\* perimeter is exactly the set of its cells with a neighbour position
\* outside the grid or holding a value >= 1.
C10_VisitedQualifierImmaterial ==
    (Rectangular(image) /\ NonNegative(image)) =>
        /\ pc = "dfs" => \A c \in visited : Val(image, c) = pixel_value
        /\ pc = "done" =>
              \A k \in 1..Len(islands) :
                  Perimeter(k) =
                      {c \in Pixels(k) : \E n \in Neighbours(c) :
                          \/ n \notin Cells(image)
                          \/ Val(image, n) >= 1}

C10_Witness ==
    /\ Returned
    /\ NonNegative(image)
    /\ Len(islands) >= 2
    /\ \E k \in 1..Len(islands) : \E c \in Perimeter(k) :
          /\ Neighbours(c) \subseteq Cells(image)
          /\ \E n \in Neighbours(c) : n \in Pixels(k)

====
